---- MODULE Spec2Model ----
(***************************************************************************)
(* Model of the four feature-selection functions of                        *)
(* feature_selection_lennart_wallentin.ipynb:                              *)
(*   interpretable_feature_selection          (broadSearch)                *)
(*   interpretable_precise_feature_selection  (preciseSearch)              *)
(*   automated_feature_selection              (automatedBroadSearch)       *)
(*   automated_precise_feature_selection      (automatedPreciseSearch)     *)
(*                                                                         *)
(* Numbers.  Real numbers are kept as exact fixed-point integers:          *)
(*   - AUC scores and auc_limit in units of 1/ScoreOne (1e-5);             *)
(*   - ci in units of 1/CiOne (percent);                                   *)
(*   - z_score in units of 1/ZOne (half percent), so that                  *)
(*     ci - (1 - ci)/2 is an integer;                                      *)
(*   - quantiles of the importance scores in quarters (times 4).           *)
(* Floating-point rounding error of the Python arithmetic is not modelled. *)
(*                                                                         *)
(* Features.  The columns of xtrain/xtest are named by their rank in the   *)
(* sorted importance table: column i (1 <= i <= F) is the i-th most        *)
(* important feature; columns F+1..ncols are columns of the data that the  *)
(* booster never used and get_score therefore does not list.              *)
(*                                                                         *)
(* Evaluator.  The cross-validation / fit / roc_curve / auc block is the   *)
(* external trainer: a deterministic function of the columns it is given.  *)
(* The column subsets reaching it are always prefixes 1..k of the ranking, *)
(* so it is the function auc_of[k].                                        *)
(***************************************************************************)
EXTENDS Integers, Sequences, FiniteSets, TLC

VARIABLES
    feature_importance_df, \* importance scores, sorted descending
    org_columns,           \* number of columns of the caller's X_train/X_test
    auc_of,                \* the evaluator: AUC obtained with the top-k columns
    pc,                    \* "idle", "loop", "done"
    fn,                    \* the function being executed
    auc_limit, ci, steps, start_num_features, span,   \* arguments
    z_score,               \* local z_score
    candidates,            \* the values the range(...) of the for loop yields
    idx,                   \* number of loop iterations completed
    xtrain, xtest,         \* working views (sets of column names)
    org_xtrain, org_xtest, \* the saved originals
    auc_num_features,      \* result list of the interpretable functions
    low_num_features,      \* result variable of the automated functions
    warned,                \* sequence of warnings emitted by warnings.warn
    evaluated,             \* trace of evaluator calls: <<num_features, columns>>
    feature_selection,     \* notebook global: list kept from the last
                           \* interpretable call
    fs_num_features,       \* notebook global: count kept from the last
                           \* automated call
    prev                   \* the call whose result the globals hold

vars == <<feature_importance_df, org_columns, auc_of, pc, fn, auc_limit, ci,
          steps, start_num_features, span, z_score, candidates, idx, xtrain,
          xtest, org_xtrain, org_xtest, auc_num_features, low_num_features,
          warned, evaluated, feature_selection, fs_num_features, prev>>

\* the globals of the notebook session
nb == <<feature_selection, fs_num_features, prev>>

env == <<feature_importance_df, org_columns, auc_of>>

----------------------------------------------------------------------------
(* Bounds of the model *)

MaxF == 3
MaxSteps == 3
MaxStart == 3
MaxSpan == 2

(* Fixed-point units *)
ScoreOne == 100000
CiOne == 100
ZOne == 2 * CiOne

(* Input values *)
ImportanceSet == {1, 2, 3}
ExtraColumns == {0, 1}
ScoreSet == {97000, 98003}
AucLimitSet == {98003, 98340}
CiSet == {99, 100}
\* steps = 0 makes range() raise ValueError before the first iteration; it is
\* not among the inputs.  A negative steps is used through abs(steps).
StepsSet == {-1} \cup (1..MaxSteps)
StartSet == 0..MaxStart
SpanSet == (-1)..MaxSpan

----------------------------------------------------------------------------
(* Python values *)

None == [tag |-> "None", val |-> 0]
IntVal(n) == [tag |-> "int", val |-> n]

\* Python truthiness of an int-or-None value: `not v` is True for None and 0
Not(v) == v.tag = "None" \/ v.val = 0

abs(n) == IF n < 0 THEN -n ELSE n

\* range(start, stop, step) as the sequence of values it yields (step # 0)
RECURSIVE range(_, _, _)
range(start, stop, step) ==
    IF (step < 0 /\ start > stop) \/ (step > 0 /\ start < stop)
    THEN <<start>> \o range(start + step, stop, step)
    ELSE <<>>

\* round(auc, 4): to the nearest multiple of 1e-4, ties to even
round4(auc) ==
    LET unit == ScoreOne \div 10000
        q == auc \div unit
        r == auc % unit
    IN  IF 2 * r < unit THEN q * unit
        ELSE IF 2 * r > unit THEN (q + 1) * unit
        ELSE IF q % 2 = 0 THEN q * unit ELSE (q + 1) * unit

----------------------------------------------------------------------------
(* Importance table and quantiles *)

SortedDescending(s) == \A i \in 1..(Len(s) - 1) : s[i] >= s[i + 1]

\* 4 * np.quantile(df, k/4), linear interpolation between order statistics
quantile4(df, k) ==
    LET n == Len(df)
        asc(j) == df[n - j]              \* 0-based ascending order statistic
        h4 == (n - 1) * k                \* 4 * virtual index
        lo == h4 \div 4
        r == h4 % 4
        hi == IF lo + 1 <= n - 1 THEN lo + 1 ELSE lo
    IN  4 * asc(lo) + r * (asc(hi) - asc(lo))

\* sum(df <= np.quantile(df, k/4))
count_le_quantile(df, k) ==
    Cardinality({i \in 1..Len(df) : 4 * df[i] <= quantile4(df, k)})

\* the range of the for loop of the two broad functions
broad_range(df, st) ==
    range(count_le_quantile(df, 3), count_le_quantile(df, 1) - 1, -abs(st))

\* variant: the stop of the range is start - span, so start - span is left out
precise_range_exclusive(start, sp) ==
    range(start + sp, start - sp, -1)

\* the range of the for loop of the two precise functions
precise_range(start, sp) ==
    range(start + sp, (start - sp) - 1, -1)

----------------------------------------------------------------------------
(* Threshold *)

\* variant: the half non-confidence mass is not halved, ci - (1 - ci)
z_score_unhalved(c) == 2 * c - 2 * (CiOne - c)

\* variant: the upper tail, 1 - (1 - ci)/2
z_score_upper(c) == 2 * CiOne - (CiOne - c)

\* z_score = ci - ((1. - ci)/2), in units of 1/ZOne
z_score_of(c) == 2 * c - (CiOne - c)

\* variant: strict comparison
passes_strictly(auc, limit, z) == auc * ZOne > limit * z

\* auc >= auc_limit * z_score
passes(auc, limit, z) == auc * ZOne >= limit * z

----------------------------------------------------------------------------
(* Feature subset *)

\* feature_importance_df.iloc[:num_features].index
features_keep(df, num_features) ==
    LET n == Len(df)
        stop == IF num_features >= 0
                THEN (IF num_features > n THEN n ELSE num_features)
                ELSE (IF n + num_features < 0 THEN 0 ELSE n + num_features)
    IN  1..stop

\* x.loc[:, x.columns.isin(features_keep.index)]
select_columns(x, keep) == x \cap keep

\* cv, fit, predict_proba, roc_curve, auc on the narrowed views
evaluate(xtr, xte) == auc_of[Cardinality(xtr)]

\* xtrain = org_xtrain (and xtest = org_xtest) at the end of an iteration
restore(x, org) == org

----------------------------------------------------------------------------
(* Result selection *)

\* variant: the score is stored as the evaluator returned it
append_unrounded(lst, auc, num_features, limit, z) ==
    IF passes(auc, limit, z)
    THEN lst \o << <<auc, num_features>> >>
    ELSE lst

\* if auc >= auc_limit*z_score: auc_num_features += [(round(auc,4), num_features)]
append_if_passes(lst, auc, num_features, limit, z) ==
    IF passes(auc, limit, z)
    THEN lst \o << <<round4(auc), num_features>> >>
    ELSE lst

\* variant: only the first passing candidate is kept
assign_first_passing(low, auc, num_features, limit, z) ==
    IF passes(auc, limit, z) /\ low.tag = "None"
    THEN IntVal(num_features)
    ELSE low

\* if auc >= auc_limit*z_score: low_num_features = num_features
assign_if_passes(low, auc, num_features, limit, z) ==
    IF passes(auc, limit, z) THEN IntVal(num_features) ELSE low

\* variant: no fallback assignment
broad_fallback_missing(low, org) == low

\* variant: the fallback is the length of the importance table
broad_fallback_ranked(low, org) ==
    IF Not(low) THEN IntVal(Len(feature_importance_df)) ELSE low

\* if not low_num_features: low_num_features = len(org_xtrain.columns)
broad_fallback(low, org) ==
    IF Not(low) THEN IntVal(Cardinality(org)) ELSE low

\* if not lowest_num_features: lowest_num_features = start_num_features
precise_fallback(low, start) ==
    IF Not(low) THEN IntVal(start) ELSE low

\* no cell of the notebook has stored a result yet
NoCall == [fn |-> "none", auc_limit |-> 0, ci |-> 0, steps |-> 0,
           start_num_features |-> 0, span |-> 0, warned |-> <<>>]

----------------------------------------------------------------------------
(* Initial state: a trained classifier, its data, and nothing running *)

Init ==
    /\ \E n \in 1..MaxF :
         /\ feature_importance_df \in
              {s \in [1..n -> ImportanceSet] : SortedDescending(s)}
         /\ \E e \in ExtraColumns : org_columns = n + e
         /\ auc_of \in [0..n -> ScoreSet]
    /\ pc = "idle"
    /\ fn = "none"
    /\ auc_limit = 0 /\ ci = 0 /\ steps = 0
    /\ start_num_features = 0 /\ span = 0
    /\ z_score = 0
    /\ candidates = <<>>
    /\ idx = 0
    /\ xtrain = {} /\ xtest = {} /\ org_xtrain = {} /\ org_xtest = {}
    /\ auc_num_features = <<>>
    /\ low_num_features = None
    /\ warned = <<>>
    /\ evaluated = <<>>
    /\ feature_selection = <<>>
    /\ fs_num_features = None
    /\ prev = NoCall

----------------------------------------------------------------------------
(* interpretable_feature_selection *)

interpretable_feature_selection_begin(al, c, st) ==
    /\ pc = "idle"
    /\ auc_limit' = al /\ ci' = c /\ steps' = st
    /\ z_score' = z_score_of(c)
    /\ candidates' = broad_range(feature_importance_df, st)
    /\ fn' = "interpretable_feature_selection"
    /\ xtrain' = 1..org_columns /\ xtest' = 1..org_columns
    /\ org_xtrain' = 1..org_columns /\ org_xtest' = 1..org_columns
    /\ auc_num_features' = <<>>
    /\ idx' = 0
    /\ pc' = "loop"
    /\ UNCHANGED <<env, start_num_features, span, low_num_features, warned,
                   evaluated>>
    /\ UNCHANGED nb

interpretable_feature_selection_call ==
    \E al \in AucLimitSet, c \in CiSet, st \in StepsSet :
        interpretable_feature_selection_begin(al, c, st)

interpretable_feature_selection_iteration ==
    /\ pc = "loop" /\ fn = "interpretable_feature_selection"
    /\ idx < Len(candidates)
    /\ LET num_features == candidates[idx + 1]
           keep == features_keep(feature_importance_df, num_features)
           xtr == select_columns(xtrain, keep)
           xte == select_columns(xtest, keep)
           auc == evaluate(xtr, xte)
       IN  /\ evaluated' = Append(evaluated, <<num_features, xtr>>)
           /\ auc_num_features' =
                append_if_passes(auc_num_features, auc, num_features,
                                 auc_limit, z_score)
    /\ xtrain' = restore(xtrain, org_xtrain)
    /\ xtest' = restore(xtest, org_xtest)
    /\ idx' = idx + 1
    /\ UNCHANGED <<env, pc, fn, auc_limit, ci, steps, start_num_features, span,
                   z_score, candidates, org_xtrain, org_xtest,
                   low_num_features, warned>>
    /\ UNCHANGED nb

interpretable_feature_selection_return ==
    /\ pc = "loop" /\ fn = "interpretable_feature_selection"
    /\ idx = Len(candidates)
    /\ warned' = IF auc_num_features = <<>>
                 THEN Append(warned, "cant_keep_75_to_25")
                 ELSE warned
    /\ pc' = "done"
    /\ UNCHANGED <<env, fn, auc_limit, ci, steps, start_num_features, span,
                   z_score, candidates, idx, xtrain, xtest, org_xtrain,
                   org_xtest, auc_num_features, low_num_features, evaluated>>
    /\ UNCHANGED nb

----------------------------------------------------------------------------
(* interpretable_precise_feature_selection *)

interpretable_precise_feature_selection_begin(al, c, st, sp) ==
    /\ pc = "idle"
    /\ auc_limit' = al /\ ci' = c
    /\ start_num_features' = st /\ span' = sp
    /\ z_score' = z_score_of(c)
    /\ candidates' = precise_range(st, sp)
    /\ fn' = "interpretable_precise_feature_selection"
    /\ xtrain' = 1..org_columns /\ xtest' = 1..org_columns
    /\ org_xtrain' = 1..org_columns /\ org_xtest' = 1..org_columns
    /\ auc_num_features' = <<>>
    /\ idx' = 0
    /\ pc' = "loop"
    /\ UNCHANGED <<env, steps, low_num_features, warned, evaluated>>
    /\ UNCHANGED nb

interpretable_precise_feature_selection_call ==
    \E al \in AucLimitSet, c \in CiSet, st \in StartSet, sp \in SpanSet :
        interpretable_precise_feature_selection_begin(al, c, st, sp)

interpretable_precise_feature_selection_iteration ==
    /\ pc = "loop" /\ fn = "interpretable_precise_feature_selection"
    /\ idx < Len(candidates)
    /\ LET num_features == candidates[idx + 1]
           keep == features_keep(feature_importance_df, num_features)
           xtr == select_columns(xtrain, keep)
           xte == select_columns(xtest, keep)
           auc == evaluate(xtr, xte)
       IN  /\ evaluated' = Append(evaluated, <<num_features, xtr>>)
           /\ auc_num_features' =
                append_if_passes(auc_num_features, auc, num_features,
                                 auc_limit, z_score)
    /\ xtrain' = restore(xtrain, org_xtrain)
    /\ xtest' = restore(xtest, org_xtest)
    /\ idx' = idx + 1
    /\ UNCHANGED <<env, pc, fn, auc_limit, ci, steps, start_num_features, span,
                   z_score, candidates, org_xtrain, org_xtest,
                   low_num_features, warned>>
    /\ UNCHANGED nb

interpretable_precise_feature_selection_return ==
    /\ pc = "loop" /\ fn = "interpretable_precise_feature_selection"
    /\ idx = Len(candidates)
    /\ warned' = IF auc_num_features = <<>>
                 THEN Append(warned, "cant_find_as_few_features")
                 ELSE warned
    /\ pc' = "done"
    /\ UNCHANGED <<env, fn, auc_limit, ci, steps, start_num_features, span,
                   z_score, candidates, idx, xtrain, xtest, org_xtrain,
                   org_xtest, auc_num_features, low_num_features, evaluated>>
    /\ UNCHANGED nb

----------------------------------------------------------------------------
(* automated_feature_selection *)

automated_feature_selection_begin(al, c, st) ==
    /\ pc = "idle"
    /\ auc_limit' = al /\ ci' = c /\ steps' = st
    /\ z_score' = z_score_of(c)
    /\ candidates' = broad_range(feature_importance_df, st)
    /\ fn' = "automated_feature_selection"
    /\ xtrain' = 1..org_columns /\ xtest' = 1..org_columns
    /\ org_xtrain' = 1..org_columns /\ org_xtest' = 1..org_columns
    /\ low_num_features' = None
    /\ idx' = 0
    /\ pc' = "loop"
    /\ UNCHANGED <<env, start_num_features, span, auc_num_features, warned,
                   evaluated>>
    /\ UNCHANGED nb

automated_feature_selection_call ==
    \E al \in AucLimitSet, c \in CiSet, st \in StepsSet :
        automated_feature_selection_begin(al, c, st)

automated_feature_selection_iteration ==
    /\ pc = "loop" /\ fn = "automated_feature_selection"
    /\ idx < Len(candidates)
    /\ LET num_features == candidates[idx + 1]
           keep == features_keep(feature_importance_df, num_features)
           xtr == select_columns(xtrain, keep)
           xte == select_columns(xtest, keep)
           auc == evaluate(xtr, xte)
       IN  /\ evaluated' = Append(evaluated, <<num_features, xtr>>)
           /\ low_num_features' =
                assign_if_passes(low_num_features, auc, num_features,
                                 auc_limit, z_score)
    /\ xtrain' = restore(xtrain, org_xtrain)
    /\ xtest' = restore(xtest, org_xtest)
    /\ idx' = idx + 1
    /\ UNCHANGED <<env, pc, fn, auc_limit, ci, steps, start_num_features, span,
                   z_score, candidates, org_xtrain, org_xtest,
                   auc_num_features, warned>>
    /\ UNCHANGED nb

automated_feature_selection_return ==
    /\ pc = "loop" /\ fn = "automated_feature_selection"
    /\ idx = Len(candidates)
    /\ warned' = IF Not(low_num_features)
                 THEN Append(warned, "keeping_all_features")
                 ELSE warned
    /\ low_num_features' = broad_fallback(low_num_features, org_xtrain)
    /\ pc' = "done"
    /\ UNCHANGED <<env, fn, auc_limit, ci, steps, start_num_features, span,
                   z_score, candidates, idx, xtrain, xtest, org_xtrain,
                   org_xtest, auc_num_features, evaluated>>
    /\ UNCHANGED nb

----------------------------------------------------------------------------
(* automated_precise_feature_selection *)

automated_precise_feature_selection_begin(al, c, st, sp) ==
    /\ pc = "idle"
    /\ auc_limit' = al /\ ci' = c
    /\ start_num_features' = st /\ span' = sp
    /\ z_score' = z_score_of(c)
    /\ candidates' = precise_range(st, sp)
    /\ fn' = "automated_precise_feature_selection"
    /\ xtrain' = 1..org_columns /\ xtest' = 1..org_columns
    /\ org_xtrain' = 1..org_columns /\ org_xtest' = 1..org_columns
    /\ low_num_features' = None
    /\ idx' = 0
    /\ pc' = "loop"
    /\ UNCHANGED <<env, steps, auc_num_features, warned, evaluated>>
    /\ UNCHANGED nb

automated_precise_feature_selection_call ==
    \E al \in AucLimitSet, c \in CiSet, st \in StartSet, sp \in SpanSet :
        automated_precise_feature_selection_begin(al, c, st, sp)

automated_precise_feature_selection_iteration ==
    /\ pc = "loop" /\ fn = "automated_precise_feature_selection"
    /\ idx < Len(candidates)
    /\ LET num_features == candidates[idx + 1]
           keep == features_keep(feature_importance_df, num_features)
           xtr == select_columns(xtrain, keep)
           xte == select_columns(xtest, keep)
           auc == evaluate(xtr, xte)
       IN  /\ evaluated' = Append(evaluated, <<num_features, xtr>>)
           /\ low_num_features' =
                assign_if_passes(low_num_features, auc, num_features,
                                 auc_limit, z_score)
    /\ xtrain' = restore(xtrain, org_xtrain)
    /\ xtest' = restore(xtest, org_xtest)
    /\ idx' = idx + 1
    /\ UNCHANGED <<env, pc, fn, auc_limit, ci, steps, start_num_features, span,
                   z_score, candidates, org_xtrain, org_xtest,
                   auc_num_features, warned>>
    /\ UNCHANGED nb

automated_precise_feature_selection_return ==
    /\ pc = "loop" /\ fn = "automated_precise_feature_selection"
    /\ idx = Len(candidates)
    /\ warned' = IF Not(low_num_features)
                 THEN Append(warned, "cant_find_as_few_features")
                 ELSE warned
    /\ low_num_features' = precise_fallback(low_num_features,
                                            start_num_features)
    /\ pc' = "done"
    /\ UNCHANGED <<env, fn, auc_limit, ci, steps, start_num_features, span,
                   z_score, candidates, idx, xtrain, xtest, org_xtrain,
                   org_xtest, auc_num_features, evaluated>>
    /\ UNCHANGED nb

----------------------------------------------------------------------------

Next ==
    \/ interpretable_feature_selection_call
    \/ interpretable_feature_selection_iteration
    \/ interpretable_feature_selection_return
    \/ interpretable_precise_feature_selection_call
    \/ interpretable_precise_feature_selection_iteration
    \/ interpretable_precise_feature_selection_return
    \/ automated_feature_selection_call
    \/ automated_feature_selection_iteration
    \/ automated_feature_selection_return
    \/ automated_precise_feature_selection_call
    \/ automated_precise_feature_selection_iteration
    \/ automated_precise_feature_selection_return

Spec == Init /\ [][Next]_vars

----------------------------------------------------------------------------
(* Vocabulary of the properties *)

Done == pc = "done"
Broad == fn \in {"interpretable_feature_selection",
                 "automated_feature_selection"}
Precise == fn \in {"interpretable_precise_feature_selection",
                   "automated_precise_feature_selection"}
Interpretable == fn \in {"interpretable_feature_selection",
                         "interpretable_precise_feature_selection"}
Automated == fn \in {"automated_feature_selection",
                     "automated_precise_feature_selection"}

\* the calls made to the evaluator so far
Calls == 1..Len(evaluated)
\* candidate count of the i-th evaluator call
CountAt(i) == evaluated[i][1]
\* score the evaluator returned to the i-th call
ScoreAt(i) == auc_of[Cardinality(evaluated[i][2])]
\* score >= auc_limit * (ci - (1 - ci)/2), in exact arithmetic
MeetsThreshold(s) == 200 * s >= auc_limit * (3 * ci - 100)
PassingCalls == {i \in Calls : MeetsThreshold(ScoreAt(i))}
PassingCounts == {CountAt(i) : i \in PassingCalls}
Minimum(S) == CHOOSE m \in S : \A x \in S : m <= x
LastPassingCall == CHOOSE i \in PassingCalls : \A j \in PassingCalls : j <= i

\* a: number of features with importance <= the 75th percentile importance
\* b: number of features with importance <= the 25th percentile importance
CountA == Cardinality({i \in 1..Len(feature_importance_df) :
                4 * feature_importance_df[i]
                    <= quantile4(feature_importance_df, 3)})
CountB == Cardinality({i \in 1..Len(feature_importance_df) :
                4 * feature_importance_df[i]
                    <= quantile4(feature_importance_df, 1)})
AbsSteps == IF steps < 0 THEN -steps ELSE steps
\* the candidates a, a - steps, a - 2*steps, ... that are >= b
BroadCandidates == {n \in CountB..CountA : (CountA - n) % AbsSteps = 0}

----------------------------------------------------------------------------
(* C1: automated_feature_selection and automated_precise_feature_selection
   each return an integer and never None, for every input; when no candidate
   is accepted the fallback supplies the integer. *)
C1_AutomatedReturnsInteger ==
    (Done /\ Automated) => low_num_features.tag = "int"

C1_Witness ==
    /\ Done /\ fn = "automated_feature_selection"
    /\ Calls # {} /\ PassingCalls = {}
    /\ low_num_features.tag = "int"

(* C2: automated_feature_selection evaluates every candidate of its scan
   range (as many evaluator calls as candidates), and when at least one
   candidate passes the value returned is the last candidate scanned that
   passed, which is the smallest passing count scanned, also for scores that
   are not monotonic in the count. *)
C2_BroadLastPassingWins ==
    (Done /\ fn = "automated_feature_selection") =>
        /\ Len(evaluated) = Cardinality(BroadCandidates)
        /\ {CountAt(i) : i \in Calls} = BroadCandidates
        /\ PassingCalls # {} =>
              /\ low_num_features = IntVal(CountAt(LastPassingCall))
              /\ low_num_features = IntVal(Minimum(PassingCounts))

\* pass, fail, pass: the scores are not monotonic in the count
C2_Witness ==
    /\ Done /\ fn = "automated_feature_selection"
    /\ \E i, j, k \in Calls :
         /\ i < j /\ j < k
         /\ i \in PassingCalls /\ j \notin PassingCalls /\ k \in PassingCalls
         /\ low_num_features = IntVal(CountAt(k))

(* C3: for any score-vs-count function that is monotonically decreasing,
   and any start_num_features and span, automated_precise_feature_selection
   returns the smallest count of the scanned range whose score is >= the
   threshold, whenever such a scanned count exists, including when that
   count is 0 or negative. *)
ScoreDecreasingInCount ==
    \A i, j \in Calls : CountAt(i) < CountAt(j) => ScoreAt(i) >= ScoreAt(j)

C3_PreciseReturnsSmallestPassing ==
    (/\ Done /\ fn = "automated_precise_feature_selection"
     /\ ScoreDecreasingInCount
     /\ PassingCalls # {})
        => low_num_features = IntVal(Minimum(PassingCounts))

(* C4: if every scanned coarse candidate scores below the threshold,
   automated_feature_selection returns the total feature count F, the length
   of the ranked feature sequence, and interpretable_feature_selection
   returns an empty list; both emit a warning. *)
C4_FallbackIsRankedLength ==
    (Done /\ Broad /\ PassingCalls = {}) =>
        /\ Len(warned) = 1
        /\ fn = "automated_feature_selection" =>
              low_num_features = IntVal(Len(feature_importance_df))
        /\ fn = "interpretable_feature_selection" =>
              auc_num_features = <<>>

(* C4 as amended: if every scanned coarse candidate scores below the
   threshold, automated_feature_selection returns the number of columns of
   the training feature table, and interpretable_feature_selection returns
   an empty list; both emit one warning. *)
C4_FallbackIsColumnCount ==
    (Done /\ Broad /\ PassingCalls = {}) =>
        /\ Len(warned) = 1
        /\ fn = "automated_feature_selection" =>
              low_num_features = IntVal(org_columns)
        /\ fn = "interpretable_feature_selection" =>
              auc_num_features = <<>>

\* the training table has a column the importance table does not list
C4_Witness ==
    /\ Done /\ fn = "automated_feature_selection"
    /\ Calls # {} /\ PassingCalls = {}
    /\ org_columns > Len(feature_importance_df)
    /\ low_num_features = IntVal(org_columns)
    /\ warned = <<"keeping_all_features">>

(* C5: automated_precise_feature_selection returns start_num_features
   itself, with a warning, if and only if zero candidates of its scan range
   were accepted; whenever at least one scanned candidate passed it returns
   a passing count and emits no warning. *)
C5_PreciseFallbackIffNoneAccepted ==
    (Done /\ fn = "automated_precise_feature_selection") =>
        /\ (warned # <<>>) <=> (PassingCalls = {})
        /\ PassingCalls = {} => low_num_features = IntVal(start_num_features)
        /\ PassingCalls # {} =>
              /\ low_num_features.tag = "int"
              /\ low_num_features.val \in PassingCounts

(* C6: the two precise functions scan exactly the integers of
   [start_num_features - span, start_num_features + span], each once, in
   strictly descending order with step 1; and every count in a list returned
   by interpretable_feature_selection or
   interpretable_precise_feature_selection is a member of the range that
   call scanned. *)
ListCounts == {auc_num_features[j][2] : j \in 1..Len(auc_num_features)}

C6_PreciseScansExactInterval ==
    /\ (Done /\ Precise) =>
          /\ Len(evaluated) =
                Cardinality((start_num_features - span)
                              ..(start_num_features + span))
          /\ \A i \in Calls :
                CountAt(i) = start_num_features + span - (i - 1)
    /\ (Done /\ Interpretable) =>
          ListCounts \subseteq {CountAt(i) : i \in Calls}
    /\ (Done /\ fn = "interpretable_precise_feature_selection") =>
          ListCounts \subseteq (start_num_features - span)
                                 ..(start_num_features + span)
    /\ (Done /\ fn = "interpretable_feature_selection") =>
          ListCounts \subseteq CountB..CountA

\* the lowest count of the interval was scanned, accepted and returned
C6_Witness ==
    /\ Done /\ fn = "interpretable_precise_feature_selection"
    /\ span = MaxSpan
    /\ Len(evaluated) = 2 * span + 1
    /\ (start_num_features - span) \in ListCounts
    /\ (start_num_features + span) \in ListCounts

(* C7: in the two broad functions, with a the number of features whose
   importance is <= the 75th-percentile importance and b the number whose
   importance is <= the 25th-percentile importance, the candidates scanned
   are a, a - steps, a - 2*steps, ... down to and including b: the first
   candidate is a and the last candidate scanned is b, for every positive
   integer steps. *)
C7_BroadScanEndsAtB ==
    (Done /\ Broad /\ steps > 0) =>
        /\ Calls # {}
        /\ CountAt(1) = CountA
        /\ \A i \in Calls : CountAt(i) = CountA - (i - 1) * steps
        /\ CountAt(Len(evaluated)) = CountB

(* C8: the list returned by interpretable_feature_selection (and by
   interpretable_precise_feature_selection) holds one pair for exactly those
   scanned candidates whose score s satisfies s >= threshold (equality
   passes) and no pair for any other candidate; the pairs are in iteration
   order, so their counts are strictly decreasing and none appears twice. *)
PassingCountsInOrder ==
    LET Passing(call) ==
            200 * auc_of[Cardinality(call[2])] >= auc_limit * (3 * ci - 100)
        picked == SelectSeq(evaluated, Passing)
    IN  [j \in 1..Len(picked) |-> picked[j][1]]

C8_ListIsExactlyThePassing ==
    (Interpretable /\ pc \in {"loop", "done"}) =>
        /\ [j \in 1..Len(auc_num_features) |-> auc_num_features[j][2]]
              = PassingCountsInOrder
        /\ \A j \in 1..(Len(auc_num_features) - 1) :
              auc_num_features[j][2] > auc_num_features[j + 1][2]

\* a candidate scoring exactly the threshold is listed, a failing one is not
C8_Witness ==
    /\ Done /\ fn = "interpretable_feature_selection"
    /\ \E i, j \in Calls :
         /\ 200 * ScoreAt(i) = auc_limit * (3 * ci - 100)
         /\ CountAt(i) \in ListCounts
         /\ ~MeetsThreshold(ScoreAt(j))
         /\ CountAt(j) \notin ListCounts
    /\ Len(auc_num_features) >= 2

(* C9: the acceptance threshold is auc_limit * z_factor with
   z_factor = ci - (1 - ci)/2; for every ci in (0, 1] z_factor is strictly
   increasing in ci, and at ci = 1 z_factor = 1, so the threshold equals
   auc_limit exactly: a candidate scoring exactly auc_limit passes, one
   scoring below it fails. *)
Running == pc \in {"loop", "done"}
\* the i-th scanned candidate is in the list the interpretable function returns
AcceptedAt(i) == CountAt(i) \in ListCounts

C9_ThresholdFromConfidence ==
    Running =>
        \* z_factor = ci - (1 - ci)/2, here in half percents
        /\ 2 * z_score = 2 * (2 * ci) - 2 * (100 - ci)
        \* strictly increasing in ci over (0, 1]; z_score is assigned once,
        \* before the loop, and is compared here as soon as it is assigned
        /\ (pc = "loop" /\ idx = 0) =>
              \A c \in 1..100 :
                 /\ c < ci => z_score_of(c) < z_score
                 /\ c > ci => z_score_of(c) > z_score
        \* a candidate is accepted iff score >= auc_limit * z_factor
        /\ Interpretable =>
              \A i \in Calls :
                 AcceptedAt(i) <=> 200 * ScoreAt(i) >= auc_limit * z_score
        \* ci = 1: z_factor = 1 and the threshold is auc_limit
        /\ ci = 100 =>
              /\ z_score = 200
              /\ Interpretable =>
                    \A i \in Calls : AcceptedAt(i) <=> ScoreAt(i) >= auc_limit

\* ci = 1, one candidate scores exactly auc_limit and one scores below it
C9_Witness ==
    /\ Done /\ Interpretable /\ ci = 100
    /\ \E i, j \in Calls :
         /\ ScoreAt(i) = auc_limit /\ AcceptedAt(i)
         /\ ScoreAt(j) < auc_limit /\ ~AcceptedAt(j)

(* C10: with ci = 0.99 and auc_limit = 0.9834 the threshold is
   0.9834 * 0.995, i.e. the z_factor for ci = 0.99 is 0.995. *)
C10_ZFactorIs0995 ==
    (Running /\ ci = 99) =>
        /\ 1000 * z_score = 995 * ZOne
        /\ auc_limit = 98340 =>
              1000 * (auc_limit * z_score) = (98340 * 995) * ZOne

(* C10 as amended: with ci = 0.99 and auc_limit = 0.9834 the threshold is
   0.9834 * 0.985 = 0.968649, i.e. the z_factor for ci = 0.99 is 0.985; a
   candidate scoring 0.97 is accepted. *)
C10_ZFactorIs0985 ==
    (Running /\ ci = 99) =>
        /\ 1000 * z_score = 985 * ZOne
        /\ auc_limit = 98340 =>
              /\ 10 * (auc_limit * z_score) = 968649 * ZOne
              /\ Interpretable =>
                    \A i \in Calls : ScoreAt(i) = 97000 => AcceptedAt(i)

\* 0.968649 <= 0.97 < 0.9834 * 0.995: accepted
C10_Witness ==
    /\ Done /\ Interpretable /\ ci = 99 /\ auc_limit = 98340
    /\ \E i \in Calls : ScoreAt(i) = 97000 /\ AcceptedAt(i)

----------------------------------------------------------------------------
(* The recorded coarse run of the notebook: the scan 53, 48, ..., 18 and the
   AUC scores the notebook printed for it. *)

\* 71 distinct importance scores
ExampleTable71 == [i \in 1..71 |-> 72 - i]
\* 70 importance scores, the 18th and 19th tied
ExampleTable70 == [i \in 1..70 |-> IF i <= 18 THEN 72 - i ELSE 73 - i]

\* the printed (AUC, number of features) pairs, AUC in units of 1/ScoreOne
ExampleScores ==
    (53 :> 98400) @@ (48 :> 98360) @@ (43 :> 98310) @@ (38 :> 98290) @@
    (33 :> 98170) @@ (28 :> 98040) @@ (23 :> 97780) @@ (18 :> 97390)

ExampleInit ==
    /\ feature_importance_df \in {ExampleTable70, ExampleTable71}
    /\ \E e \in {0, 3} : org_columns = Len(feature_importance_df) + e
    /\ \E other \in ScoreSet :
         auc_of = [k \in 0..Len(feature_importance_df) |->
                     IF k \in DOMAIN ExampleScores
                     THEN ExampleScores[k] ELSE other]
    /\ pc = "idle"
    /\ fn = "none"
    /\ auc_limit = 0 /\ ci = 0 /\ steps = 0
    /\ start_num_features = 0 /\ span = 0
    /\ z_score = 0
    /\ candidates = <<>>
    /\ idx = 0
    /\ xtrain = {} /\ xtest = {} /\ org_xtrain = {} /\ org_xtest = {}
    /\ auc_num_features = <<>>
    /\ low_num_features = None
    /\ warned = <<>>
    /\ evaluated = <<>>
    /\ feature_selection = <<>>
    /\ fs_num_features = None
    /\ prev = NoCall

\* auc_limit = 0.975 or the notebook's 0.9834, ci = 0.99 or 1, steps = 5
ExampleAucLimitSet == {97500, 98340}

ExampleNext ==
    \/ \E al \in ExampleAucLimitSet, c \in CiSet :
          interpretable_feature_selection_begin(al, c, 5)
    \/ interpretable_feature_selection_iteration
    \/ interpretable_feature_selection_return
    \/ \E al \in ExampleAucLimitSet, c \in CiSet :
          automated_feature_selection_begin(al, c, 5)
    \/ automated_feature_selection_iteration
    \/ automated_feature_selection_return

SpecExample == ExampleInit /\ [][ExampleNext]_vars

\* the scan of the example has ended under the threshold 0.975 * 1
ExampleDone ==
    /\ Done /\ Broad
    /\ steps = 5 /\ auc_limit = 97500 /\ ci = 100
    /\ [i \in Calls |-> CountAt(i)] = <<53, 48, 43, 38, 33, 28, 23, 18>>
    /\ \A i \in Calls : ScoreAt(i) = ExampleScores[CountAt(i)]

(* C11: for the coarse scan over 53, 48, ..., 18 (step 5) with the scores
   53:0.984, 48:0.9836, 43:0.9831, 38:0.9829, 33:0.9817, 28:0.9804,
   23:0.9778, 18:0.9739 and threshold 0.975,
   interpretable_feature_selection returns all eight (score, count) pairs in
   descending-count order and automated_feature_selection returns 18. *)
C11_AllEightPass ==
    ExampleDone =>
        /\ fn = "interpretable_feature_selection" =>
              auc_num_features =
                << <<98400, 53>>, <<98360, 48>>, <<98310, 43>>, <<98290, 38>>,
                   <<98170, 33>>, <<98040, 28>>, <<97780, 23>>, <<97390, 18>> >>
        /\ fn = "automated_feature_selection" =>
              low_num_features = IntVal(18)

(* C11 as amended: with threshold 0.975 the candidate 18 (score 0.9739) is
   rejected: interpretable_feature_selection returns the seven pairs for
   53, 48, ..., 23 in descending-count order and
   automated_feature_selection returns 23, without a warning. *)
C11_SevenPass ==
    ExampleDone =>
        /\ warned = <<>>
        /\ fn = "interpretable_feature_selection" =>
              auc_num_features =
                << <<98400, 53>>, <<98360, 48>>, <<98310, 43>>, <<98290, 38>>,
                   <<98170, 33>>, <<98040, 28>>, <<97780, 23>> >>
        /\ fn = "automated_feature_selection" =>
              low_num_features = IntVal(23)

C11_Witness ==
    /\ ExampleDone
    /\ fn = "automated_feature_selection"
    /\ low_num_features = IntVal(23)

----------------------------------------------------------------------------
(* C12: every candidate count that any of the four functions passes to the
   evaluator satisfies 1 <= count <= total_features, for every
   start_num_features in 1..total_features and every positive span and
   steps.  (The start is taken within the importance table and the counts
   are compared with the column count, which is the larger of the two
   feature counts.) *)
C12_CandidatesWithinFeatureCount ==
    (/\ Running
     /\ Broad => steps > 0
     /\ Precise => /\ start_num_features \in 1..Len(feature_importance_df)
                   /\ span > 0)
        => \A i \in Calls : 1 <= CountAt(i) /\ CountAt(i) <= org_columns

(* C13: in every iteration of each of the four loops the feature subset
   handed to the evaluator for candidate n is exactly the n highest-ranked
   features of the original full table; at the start of each iteration the
   working views equal the caller's originals, and the caller's tables are
   unchanged when the function returns. *)
ViewsRestored ==
    /\ xtrain = 1..org_columns /\ xtest = 1..org_columns
    /\ org_xtrain = 1..org_columns /\ org_xtest = 1..org_columns

C13_TopNOfFullTable ==
    Running =>
        /\ ViewsRestored
        /\ \A i \in Calls :
              /\ evaluated[i][2] =
                    {r \in 1..Len(feature_importance_df) : r <= CountAt(i)}
              /\ Cardinality(evaluated[i][2]) = CountAt(i)

\* the part of C13 about the views alone: every iteration starts from, and
\* every return leaves, the caller's full tables
C13_ViewsAlwaysRestored == Running => ViewsRestored

(* C14: in all four functions the warning is emitted if and only if no
   candidate of the scanned range passed the threshold; the function still
   returns its normal result type, and no warning is emitted when at least
   one scanned candidate passed. *)
C14_WarningIffNonePassed ==
    Done =>
        /\ (PassingCalls = {}) => Len(warned) = 1
        /\ (PassingCalls # {}) => warned = <<>>
        /\ Automated => low_num_features.tag = "int"

(* C15: every (score, count) pair in a list returned by
   interpretable_feature_selection or interpretable_precise_feature_selection
   carries the score the evaluator returned for that count, and that stored
   score is >= the acceptance threshold. *)
\* the evaluator call that produced the j-th pair of the list
CallOfPair(j) == CHOOSE i \in Calls : CountAt(i) = auc_num_features[j][2]

C15_StoredScoreMeetsThreshold ==
    (Running /\ Interpretable) =>
        \A j \in 1..Len(auc_num_features) :
            /\ auc_num_features[j][1] = ScoreAt(CallOfPair(j))
            /\ MeetsThreshold(auc_num_features[j][1])

(* C15 as amended: every pair carries the score the evaluator returned for
   that count rounded to 4 decimals; the unrounded score is >= the
   acceptance threshold, so the stored score is within 0.00005 of a passing
   score and may itself be below the threshold. *)
C15_StoredScoreIsRounded ==
    (Running /\ Interpretable) =>
        \A j \in 1..Len(auc_num_features) :
            LET stored == auc_num_features[j][1]
                score == ScoreAt(CallOfPair(j))
            IN  /\ stored % 10 = 0
                /\ 2 * (stored - score) <= 10
                /\ 2 * (score - stored) <= 10
                /\ MeetsThreshold(score)
                /\ MeetsThreshold(stored + 5)

\* a listed score that is below the threshold after rounding
C15_Witness ==
    /\ Done /\ Interpretable
    /\ \E j \in 1..Len(auc_num_features) :
         /\ MeetsThreshold(ScoreAt(CallOfPair(j)))
         /\ ~MeetsThreshold(auc_num_features[j][1])

----------------------------------------------------------------------------
(* The notebook session: a cell stores the result of a call in a global and
   a later cell calls the next function. *)

\* feature_selection = interpretable_feature_selection(...),
\* precise_feature_selection = interpretable_precise_feature_selection(...),
\* fs_num_features = automated_feature_selection(...),
\* fs_num_features = automated_precise_feature_selection(...)
store_result ==
    /\ pc = "done"
    /\ feature_selection' =
         IF Interpretable THEN auc_num_features ELSE feature_selection
    /\ fs_num_features' =
         IF Automated THEN low_num_features ELSE fs_num_features
    /\ prev' = [fn |-> fn, auc_limit |-> auc_limit, ci |-> ci,
                steps |-> steps, start_num_features |-> start_num_features,
                span |-> span, warned |-> warned]
    /\ pc' = "idle"
    /\ warned' = <<>>
    /\ evaluated' = <<>>
    /\ UNCHANGED <<env, fn, auc_limit, ci, steps, start_num_features, span,
                   z_score, candidates, idx, xtrain, xtest, org_xtrain,
                   org_xtest, auc_num_features, low_num_features>>

\* the first call of the session
first_interpretable_feature_selection ==
    prev = NoCall /\ interpretable_feature_selection_call
first_interpretable_precise_feature_selection ==
    prev = NoCall /\ interpretable_precise_feature_selection_call
first_automated_feature_selection ==
    prev = NoCall /\ automated_feature_selection_call

\* the automated function called with the arguments of the interpretable
\* call before it
same_arguments_automated_feature_selection ==
    /\ prev.fn = "interpretable_feature_selection"
    /\ automated_feature_selection_begin(prev.auc_limit, prev.ci, prev.steps)

same_arguments_automated_precise_feature_selection ==
    /\ prev.fn = "interpretable_precise_feature_selection"
    /\ automated_precise_feature_selection_begin(
          prev.auc_limit, prev.ci, prev.start_num_features, prev.span)

\* fs_num_features = automated_precise_feature_selection(clf,
\*     start_num_features=fs_num_features, auc_limit=..., ci=...) with the
\* auc_limit and ci of the automated_feature_selection call before it
pipeline_automated_precise_feature_selection ==
    /\ prev.fn = "automated_feature_selection"
    /\ fs_num_features.tag = "int"
    /\ \E sp \in 1..MaxSpan :
         automated_precise_feature_selection_begin(
             prev.auc_limit, prev.ci, fs_num_features.val, sp)

NotebookNext ==
    \/ first_interpretable_feature_selection
    \/ first_interpretable_precise_feature_selection
    \/ first_automated_feature_selection
    \/ same_arguments_automated_feature_selection
    \/ same_arguments_automated_precise_feature_selection
    \/ pipeline_automated_precise_feature_selection
    \/ interpretable_feature_selection_iteration
    \/ interpretable_feature_selection_return
    \/ interpretable_precise_feature_selection_iteration
    \/ interpretable_precise_feature_selection_return
    \/ automated_feature_selection_iteration
    \/ automated_feature_selection_return
    \/ automated_precise_feature_selection_iteration
    \/ automated_precise_feature_selection_return
    \/ store_result

SpecNotebook == Init /\ [][NotebookNext]_vars

(* C16: for identical inputs and a deterministic evaluator the automated
   function agrees with its interpretable counterpart: whenever the
   interpretable function returned a non-empty list the automated function
   returns the count of the last pair of that list, and whenever the list
   is empty the automated function returns its fallback value. *)
AfterCounterpart ==
    /\ Done
    /\ \/ /\ fn = "automated_feature_selection"
          /\ prev.fn = "interpretable_feature_selection"
          /\ prev.steps = steps
       \/ /\ fn = "automated_precise_feature_selection"
          /\ prev.fn = "interpretable_precise_feature_selection"
          /\ prev.start_num_features = start_num_features
          /\ prev.span = span
    /\ prev.auc_limit = auc_limit /\ prev.ci = ci

C16_AutomatedAgreesWithInterpretable ==
    AfterCounterpart =>
        /\ feature_selection # <<>> =>
              low_num_features =
                IntVal(feature_selection[Len(feature_selection)][2])
        /\ feature_selection = <<>> =>
              low_num_features =
                IF Broad THEN IntVal(org_columns)
                         ELSE IntVal(start_num_features)

(* C17: in the pipeline where automated_precise_feature_selection is run
   with start_num_features set to the value automated_feature_selection
   returned, with the same ranking, evaluator, auc_limit and ci and a
   positive span: if the coarse search did not fall back, the fine search
   does not fall back and emits no warning, and its result r satisfies
   1 <= r <= start_num_features and start_num_features - span <= r; if the
   coarse search fell back to the total feature count, every count the fine
   search scans is <= the total feature count. *)
AfterPipeline ==
    /\ Done
    /\ fn = "automated_precise_feature_selection"
    /\ prev.fn = "automated_feature_selection"
    /\ start_num_features = fs_num_features.val
    /\ prev.auc_limit = auc_limit /\ prev.ci = ci
    /\ span > 0

C17_PipelineFineSearch ==
    AfterPipeline =>
        /\ prev.warned = <<>> =>
              /\ warned = <<>>
              /\ low_num_features.tag = "int"
              /\ 1 <= low_num_features.val
              /\ low_num_features.val <= start_num_features
              /\ start_num_features - span <= low_num_features.val
        /\ prev.warned # <<>> =>
              \A i \in Calls : CountAt(i) <= org_columns

====
